---- MODULE Spec2Model ----
(***************************************************************************)
(* Neon Drift Protocol: the vehicle integrator (js/modules/physics.js)     *)
(* and the road curvature provider / segment recycler (world module,       *)
(* unnamed/part_001) with the game loop that couples them (main module,    *)
(* unnamed/part_002).                                                      *)
(*                                                                         *)
(* Numbers.  The program computes in IEEE doubles; the model computes in   *)
(* fixed point on integers:                                                *)
(*   time                      milliseconds                                *)
(*   speed, velocity, force    1/1000 unit                  (MILLI)        *)
(*   position.x, position.z    1/100 unit                   (CENTI)        *)
(*   position.y                1/1000 unit                  (MILLI)        *)
(*   steering angle            1/1000000 rad                (MICRO)        *)
(*   yaw, angular velocity     1/10000 rad                  (ANGLE)        *)
(*   road lateral offsets      1/27000000 unit, exact       (XSCALE)       *)
(* Divisions round toward zero.  NaN is carried by explicit flags.         *)
(***************************************************************************)
EXTENDS Integers, Sequences, FiniteSets, TLC

VARIABLES vehicle, world, game, curve

vars == <<vehicle, world, game, curve>>

(***************************************************************************)
(* Arithmetic helpers (Math.abs, Math.sign, Math.min, Math.max, %, /).     *)
(***************************************************************************)
Abs(a) == IF a < 0 THEN -a ELSE a

Sign(a) == IF a > 0 THEN 1 ELSE IF a < 0 THEN -1 ELSE 0

Min(a, b) == IF a < b THEN a ELSE b

Max(a, b) == IF a > b THEN a ELSE b

\* JavaScript's % takes the sign of the dividend.
JsRem(a, b) == IF a >= 0 THEN a % b ELSE -((-a) % b)

\* Division rounding toward zero.
Div(a, b) == IF a >= 0 THEN a \div b ELSE -((-a) \div b)

\* a * b / c, rounded toward zero, without leaving 32 bits (c * c < 2^31).
MulDiv(a, b, c) ==
    LET s  == Sign(a) * Sign(b)
        ua == Abs(a)
        ub == Abs(b)
        a1 == ua \div c
        a0 == ua % c
        b1 == ub \div c
        b0 == ub % c
    IN s * (a1 * b1 * c + a1 * b0 + a0 * b1 + (a0 * b0) \div c)

(***************************************************************************)
(* World constants (unnamed/part_001 lines 13-16).                         *)
(***************************************************************************)
ROAD_SEGMENTS == 200

ROAD_LENGTH == 2000

SEGMENT_LENGTH == ROAD_LENGTH \div ROAD_SEGMENTS

LANE_WIDTH == 10

\* Lateral offsets are kept as exact multiples of 1/XSCALE: every bracket of
\* the track is 100 or 300 units long and 100^3 divides 300^3 = XSCALE.
XSCALE == 300 * 300 * 300

(***************************************************************************)
(* The track definition: pos in thousandths of the cycle, turn in tenths.  *)
(***************************************************************************)
trackPoints ==
    << [pos |-> 0,    turn |-> 0],
       [pos |-> 150,  turn |-> -10],
       [pos |-> 300,  turn |-> 0],
       [pos |-> 350,  turn |-> 0],
       [pos |-> 500,  turn |-> 10],
       [pos |-> 650,  turn |-> 0],
       [pos |-> 700,  turn |-> 0],
       [pos |-> 850,  turn |-> -6],
       [pos |-> 1000, turn |-> 0] >>

\* pos as a distance into the cycle: pos * ROAD_LENGTH.
PosZ(p) == (p.pos * ROAD_LENGTH) \div 1000

\* turn * LANE_WIDTH * 5.0, in units.
TurnX(p) == (p.turn * LANE_WIDTH * 5) \div 10

\* An easing that returns to 0 at t = 1: t * t * (2 - 2 * t).
cubicEaseFlat(t) ==
    [num |-> t.num * t.num * (2 * t.den - 2 * t.num),
     den |-> t.den * t.den * t.den]

\* cubicEase(t) = t * t * (3 - 2 * t) on a fraction t = num / den.
cubicEase(t) ==
    [num |-> t.num * t.num * (3 * t.den - 2 * t.num),
     den |-> t.den * t.den * t.den]

\* The bracket the cycle distance m lies in: the first j with
\* pos[j] <= patternPosition < pos[j+1]; the pair (first, last) when none.
trackBracket(m) ==
    LET hits == {j \in 1..(Len(trackPoints) - 1) :
                    m >= PosZ(trackPoints[j]) /\ m < PosZ(trackPoints[j + 1])}
    IN IF hits = {}
       THEN [p1 |-> trackPoints[1], p2 |-> trackPoints[Len(trackPoints)]]
       ELSE LET j == CHOOSE k \in hits : \A h \in hits : k <= h
            IN [p1 |-> trackPoints[j], p2 |-> trackPoints[j + 1]]

\* The offset between two control points at cycle distance m:
\*   segmentProgress = (patternPosition - p1.pos) / (p2.pos - p1.pos)
\*   turnValue = p1.turn + (p2.turn - p1.turn) * cubicEase(segmentProgress)
\*   xOffset = turnValue * LANE_WIDTH * 5.0
\* A zero turn difference times the eased fraction is zero.
trackOffset(p1, p2, m) ==
    IF TurnX(p2) = TurnX(p1)
    THEN TurnX(p1) * XSCALE
    ELSE LET e == cubicEase([num |-> m - PosZ(p1), den |-> PosZ(p2) - PosZ(p1)])
         IN TurnX(p1) * XSCALE + (TurnX(p2) - TurnX(p1)) * e.num * (XSCALE \div e.den)

\* getTrackXPositionAtZ(zPosition), z in whole units, result in 1/XSCALE.
getTrackXPositionAtZ(zPosition) ==
    LET m == JsRem(zPosition, ROAD_LENGTH)
        b == trackBracket(m)
    IN trackOffset(b.p1, b.p2, m)

(***************************************************************************)
(* Fixed-point scales.                                                     *)
(***************************************************************************)
MILLI == 10 * 100

CENTI == 10 * 10

(***************************************************************************)
(* GameWorld: the road (unnamed/part_001).  A segment is [z, x]: z in      *)
(* whole units (every z the program assigns is a multiple of               *)
(* SEGMENT_LENGTH), x in 1/XSCALE.  playerZ is in 1/100 unit.              *)
(***************************************************************************)
\* createRoad's loop body for segment i (0-based): position.z and the
\* lateral offset computed inline from the track definition.
createRoadSegment(i) ==
    LET z == i * SEGMENT_LENGTH
        m == JsRem(z, ROAD_LENGTH)
        b == trackBracket(m)
    IN [z |-> z, x |-> trackOffset(b.p1, b.p2, m)]

\* GameWorld after the constructor and init(): createRoad's segments and
\* the initial road range.
createRoad ==
    LET initialSegments == ROAD_SEGMENTS * 5
    IN [roadSegments |-> [k \in 1..initialSegments |-> createRoadSegment(k - 1)],
        roadZMin |-> 0,
        roadZMax |-> initialSegments * SEGMENT_LENGTH,
        lastRecycleFrame |-> 0,
        updateCount |-> 0,
        initialBoundsCalculated |-> FALSE,
        playerZPosition |-> 0]

\* positionRoadSegment(segment, playerZ, segmentZ): the lateral offset is
\* recomputed from the track definition at segmentZ.
positionRoadSegmentStale(segment, playerZ, segmentZ) ==
    segment

positionRoadSegment(segment, playerZ, segmentZ) ==
    LET m == JsRem(segmentZ, ROAD_LENGTH)
        b == trackBracket(m)
    IN [segment EXCEPT !.x = trackOffset(b.p1, b.p2, m)]

\* An emergency loop that moves each of the first 50 array slots whether or
\* not it trails the player.
RECURSIVE emergencyLoopAll(_, _, _, _)
emergencyLoopAll(segs, i, maxZ, playerZ) ==
    IF i > 50
    THEN [segs |-> segs, maxZ |-> maxZ]
    ELSE IF i <= Len(segs)
         THEN LET newZ == maxZ + SEGMENT_LENGTH
                  moved == positionRoadSegment([segs[i] EXCEPT !.z = newZ], playerZ, newZ)
              IN emergencyLoopAll([segs EXCEPT ![i] = moved], i + 1, newZ, playerZ)
         ELSE emergencyLoopAll(segs, i + 1, maxZ, playerZ)

\* The emergency loop of recycleRoadSegments: the first 50 array slots,
\* each moved SEGMENT_LENGTH beyond the running maximum when it trails the
\* player by more than 500.
RECURSIVE emergencyLoop(_, _, _, _)
emergencyLoop(segs, i, maxZ, playerZ) ==
    IF i > 50
    THEN [segs |-> segs, maxZ |-> maxZ]
    ELSE IF i <= Len(segs) /\ playerZ - segs[i].z * CENTI > 500 * CENTI
         THEN LET newZ == maxZ + SEGMENT_LENGTH
                  moved == positionRoadSegment([segs[i] EXCEPT !.z = newZ], playerZ, newZ)
              IN emergencyLoop([segs EXCEPT ![i] = moved], i + 1, newZ, playerZ)
         ELSE emergencyLoop(segs, i + 1, maxZ, playerZ)

\* The full pass loop: at most 50 segments trailing by more than 1000 are
\* moved ahead; the loop stops once the road reaches 3000 beyond the player.
\* Slots that do not trail change nothing (the stop test was false when the
\* loop last left it), so the loop steps from one trailing slot to the next.
RECURSIVE recycleLoop(_, _, _, _, _)
recycleLoop(segs, i, maxZ, recycledForward, playerZ) ==
    LET trailing == {j \in i..Len(segs) : playerZ - segs[j].z * CENTI > 1000 * CENTI}
    IN IF recycledForward >= 50 \/ trailing = {}
       THEN [segs |-> segs, maxZ |-> maxZ, recycledForward |-> recycledForward]
       ELSE LET j == CHOOSE a \in trailing : \A b \in trailing : a <= b
                newZ == maxZ + SEGMENT_LENGTH
                segs2 == [segs EXCEPT ![j] =
                            positionRoadSegment([segs[j] EXCEPT !.z = newZ], playerZ, newZ)]
            IN IF newZ * CENTI - playerZ > 3000 * CENTI
               THEN [segs |-> segs2, maxZ |-> newZ, recycledForward |-> recycledForward + 1]
               ELSE recycleLoop(segs2, j + 1, newZ, recycledForward + 1, playerZ)

\* Sampled bounds that are not seeded with the stored bounds.
sampleBoundsUnseeded(w) ==
    LET sampled == {w.roadSegments[k].z :
                       k \in {j \in 1..Len(w.roadSegments) : (j - 1) % 4 = 0}}
    IN [maxZ |-> CHOOSE a \in sampled : \A b \in sampled : a >= b,
        minZ |-> CHOOSE a \in sampled : \A b \in sampled : a <= b]

\* The sampled bounds: every 4th segment, seeded with the stored bounds
\* (a stored 0 is falsy and seeds with -Infinity / Infinity).
sampleBounds(w) ==
    LET sampled == {w.roadSegments[k].z :
                       k \in {j \in 1..Len(w.roadSegments) : (j - 1) % 4 = 0}}
        hi == IF w.roadZMax = 0 THEN sampled ELSE sampled \cup {w.roadZMax}
        lo == IF w.roadZMin = 0 THEN sampled ELSE sampled \cup {w.roadZMin}
    IN [maxZ |-> CHOOSE a \in hi : \A b \in hi : a >= b,
        minZ |-> CHOOSE a \in lo : \A b \in lo : a <= b]

\* The full pass of recycleRoadSegments (after the cadence counter).
fullRecycle(w, playerZ, shouldRecycle) ==
    IF Len(w.roadSegments) = 0
    THEN w
    ELSE LET resample == ~w.initialBoundsCalculated \/ shouldRecycle
             sb == sampleBounds(w)
             w1 == IF resample
                   THEN [w EXCEPT !.roadZMin = sb.minZ,
                                  !.roadZMax = sb.maxZ,
                                  !.initialBoundsCalculated = TRUE]
                   ELSE w
         IN IF w1.roadZMax * CENTI - playerZ < 3000 * CENTI
            THEN LET r == recycleLoop(w1.roadSegments, 1, w1.roadZMax, 0, playerZ)
                 IN [w1 EXCEPT !.roadSegments = r.segs,
                               !.roadZMax = IF r.recycledForward > 0
                                            THEN r.maxZ ELSE w1.roadZMax]
            ELSE w1

\* recycleRoadSegments(playerZ).
recycleRoadSegments(w, playerZ) ==
    LET count == w.lastRecycleFrame + 1
        shouldRecycle == count >= 10
        w0 == [w EXCEPT !.lastRecycleFrame = IF shouldRecycle THEN 0 ELSE count]
    IN IF shouldRecycle \/ w0.roadZMax = 0
       THEN fullRecycle(w0, playerZ, shouldRecycle)
       ELSE IF w0.roadZMax * CENTI - playerZ < 500 * CENTI
            THEN LET r == emergencyLoop(w0.roadSegments, 1, w0.roadZMax, playerZ)
                 IN [w0 EXCEPT !.roadSegments = r.segs, !.roadZMax = r.maxZ]
            ELSE w0

\* updateRoad(deltaTime, playerSpeed, playerPosition, currentTime).
updateRoad(w, playerSpeed, playerZ) ==
    LET w0 == [w EXCEPT !.playerZPosition = playerZ]
        w1 == IF w0.roadZMax * CENTI - playerZ < 500 * CENTI
              THEN recycleRoadSegments(w0, playerZ)
              ELSE w0
    IN IF playerSpeed > 0 /\ w1.updateCount % 3 = 0
       THEN recycleRoadSegments(w1, playerZ)
       ELSE w1

\* GameWorld.update(deltaTime, playerSpeed, playerPosition, gameTime): the
\* update counter, the early-game road check and updateRoad.
worldUpdate(w, playerSpeed, playerZ) ==
    LET w0 == [w EXCEPT !.updateCount = w.updateCount + 1,
                        !.playerZPosition = IF w.updateCount + 1 = 1
                                            THEN playerZ ELSE w.playerZPosition]
        w1 == IF w0.updateCount < 100 /\ w0.updateCount % 20 = 0
                 /\ w0.roadZMax * CENTI - playerZ < 2000 * CENTI
              THEN recycleRoadSegments(w0, playerZ)
              ELSE w0
    IN updateRoad(w1, playerSpeed, playerZ)

(***************************************************************************)
(* Fixed-point mathematics for the vehicle.                                *)
(***************************************************************************)
\* Direction components, sines and cosines, ratios: 1/10000.  Yaw angles
\* are in 1/10000 rad, so one radian is UNIT.
UNIT == 100 * 100

\* a * b / c rounded toward zero for any c < 2^29 (shift-and-add division).
RECURSIVE mulDivStep(_, _, _)
mulDivStep(x, b, c) ==
    IF b = 0
    THEN [q |-> 0, r |-> 0]
    ELSE LET h == mulDivStep(x, b \div 2, c)
             r2 == 2 * h.r + (IF b % 2 = 1 THEN x ELSE 0)
         IN [q |-> 2 * h.q + r2 \div c, r |-> r2 % c]

MulDivBig(a, b, c) ==
    LET ua == Abs(a)
        s == mulDivStep(ua % c, Abs(b), c)
    IN Sign(a) * Sign(b) * ((ua \div c) * Abs(b) + s.q)

\* Math.sqrt on a non-negative integer, rounded down.
RECURSIVE sqrtSearch(_, _, _)
sqrtSearch(n, lo, hi) ==
    IF lo >= hi
    THEN lo
    ELSE LET mid == (lo + hi + 1) \div 2
         IN IF mid * mid <= n
            THEN sqrtSearch(n, mid, hi)
            ELSE sqrtSearch(n, lo, mid - 1)

Sqrt(n) == sqrtSearch(n, 0, 46340)

\* Math.sin and Math.cos of an angle in 1/10000 rad, result in 1/UNIT: the
\* angle is reduced to [-pi, pi], folded to [-pi/2, pi/2], then the Taylor
\* polynomial to the ninth (eighth) power.
PI == 3 * UNIT + 1416

angleReduce(a) ==
    LET r == JsRem(a, 2 * PI)
    IN IF r > PI THEN r - 2 * PI ELSE IF r < -PI THEN r + 2 * PI ELSE r

sinSeries(x) ==
    LET x2 == MulDiv(x, x, UNIT)
        x3 == MulDiv(x2, x, UNIT)
        x5 == MulDiv(x3, x2, UNIT)
        x7 == MulDiv(x5, x2, UNIT)
        x9 == MulDiv(x7, x2, UNIT)
    IN x - Div(x3, 6) + Div(x5, 120) - Div(x7, 5040) + Div(x9, 362880)

cosSeries(x) ==
    LET x2 == MulDiv(x, x, UNIT)
        x4 == MulDiv(x2, x2, UNIT)
        x6 == MulDiv(x4, x2, UNIT)
        x8 == MulDiv(x6, x2, UNIT)
    IN UNIT - Div(x2, 2) + Div(x4, 24) - Div(x6, 720) + Div(x8, 40320)

Sin(a) ==
    LET r == angleReduce(a)
    IN IF r > PI \div 2 THEN sinSeries(PI - r)
       ELSE IF r < -(PI \div 2) THEN sinSeries(-PI - r)
       ELSE sinSeries(r)

Cos(a) ==
    LET r == Abs(angleReduce(a))
    IN IF r > PI \div 2 THEN -cosSeries(PI - r) ELSE cosSeries(r)

(***************************************************************************)
(* Vehicle constants (js/modules/physics.js lines 12-33), in the model's   *)
(* units where the source's value is not a whole number.                   *)
(***************************************************************************)
MAX_SPEED == 5000

ACCELERATION == 2000

DECELERATION == 800

ENGINE_BRAKING == 1

\* DRAG_COEFFICIENT = 0.00015, in 1/100000.
DRAG_COEFFICIENT == 15

\* OFF_ROAD_FRICTION = 0.03, in hundredths.
OFF_ROAD_FRICTION == 3

OFF_ROAD_DAMAGE == 10

\* GRAVITY = 9.8, in 1/1000.
GRAVITY == 9800

\* MAX_STEERING_ANGLE = Math.PI / 4, in 1/1000000 rad.
MAX_STEERING_ANGLE == 785398

\* STEERING_SPEED = 2.5 rad/s and STEERING_RETURN_SPEED = 5.0 rad/s, in
\* 1/1000000 rad per millisecond.
STEERING_SPEED == 2500

STEERING_RETURN_SPEED == 5000

WHEEL_BASE == 6

\* SUSPENSION_TRAVEL = 0.5 and WHEEL_RADIUS = 0.8, in 1/1000.
SUSPENSION_TRAVEL == 500

WHEEL_RADIUS == 800

TOTAL_MASS == 400 + 20 * 4

\* ROAD_HALF_WIDTH = 15 (checkSurfaceInteraction).
ROAD_HALF_WIDTH == 15

(***************************************************************************)
(* The state after construction: new Vehicle(), new GameWorld().init(),    *)
(* new Game() before its first update.  v.nan is the set of the vehicle's  *)
(* quantities that hold NaN: "velocity" (x and z), "velocityY", "speed",   *)
(* "position" (x and z), "positionY", "steeringAngle", "yaw" (angular      *)
(* velocity, rotation.y, direction, right), "acceleration" (x and z),      *)
(* "accelerationY", "angularAcceleration", "tractiveForce",                *)
(* "effectiveSteeringAngle" (the front wheels' rotation.y); the number     *)
(* stored for such a quantity is 0.                                        *)
(***************************************************************************)
NoInput ==
    [accelerate |-> FALSE, brake |-> FALSE, reverse |-> FALSE,
     turnLeft |-> FALSE, turnRight |-> FALSE, isNull |-> TRUE]

NewVehicle ==
    [position |-> [x |-> 0, y |-> 800, z |-> 0],
     velocity |-> [x |-> 0, y |-> 0, z |-> 0],
     acceleration |-> [x |-> 0, y |-> 0, z |-> 0],
     direction |-> [x |-> 0, z |-> UNIT],
     right |-> [x |-> UNIT, z |-> 0],
     rotationY |-> 0,
     angularVelocity |-> 0,
     angularAcceleration |-> 0,
     speed |-> 0,
     steeringAngle |-> 0,
     throttle |-> 0,
     brake |-> 0,
     reverse |-> 0,
     isGrounded |-> TRUE,
     isOffRoad |-> FALSE,
     wasOffRoad |-> FALSE,
     input |-> NoInput,
     debug |-> [tractiveForce |-> 0, totalLongitudinalForce |-> 0],
     nan |-> {}]

NoProbe ==
    [dt |-> 0, prevY |-> 0, prevSpeed |-> 0, speedAtForces |-> 0,
     nanAtForces |-> FALSE, yBeforeGround |-> 0, vyBeforeGround |-> 0,
     nanBeforeGround |-> FALSE, vyAfterIntegrate |-> 0, accelDt |-> 0,
     prevSteering |-> 0, steeringAtForces |-> 0, prevIsOffRoad |-> FALSE,
     prevVy |-> 0, speedAtSurface |-> 0, nanAtSurface |-> FALSE]

NewGame ==
    [updateCount |-> 0, gameTime |-> 0, pc |-> "frame", lastDt |-> 0,
     drive |-> [dt |-> 0, adv |-> 0],
     collisions |-> 0, offRoadUpdates |-> 0, last |-> "init",
     held |-> [input |-> NoInput, deltaTime |-> 0],
     probe |-> NoProbe]

NoCurve == [phase |-> "idle", z |-> 0, x |-> 0, xNextCycle |-> 0]

(***************************************************************************)
(* Vehicle (js/modules/physics.js).  dt and deltaTime are in milliseconds. *)
(***************************************************************************)
Nan(v, q) == q \in v.nan

\* update, lines 125-130: the initial speed given when speed < 0.1 and the
\* accelerate flag is set (a NaN speed is not below 0.1).
updateInitialBoost(v, input) ==
    IF ~Nan(v, "speed") /\ v.speed < MILLI \div 10 /\ input.accelerate
    THEN [v EXCEPT !.speed = 30 * MILLI,
                   !.velocity = [x |-> 0, y |-> 0, z |-> 30 * MILLI],
                   !.nan = @ \ {"velocity", "velocityY"}]
    ELSE v

\* The throttle following the accelerate flag alone.
resolveThrottleNoOverride(input) == IF input.accelerate THEN 1 ELSE 0

\* updateControls line 171: the throttle is allowed only without the brake.
resolveThrottle(input) == IF input.accelerate /\ ~input.brake THEN 1 ELSE 0

\* A return to centre that always subtracts the frame step.
steeringReturnNoSnap(st, dt) == st - Sign(st) * STEERING_RETURN_SPEED * dt

\* updateControls lines 198-205: the return of the steering to centre, which
\* snaps to zero when the angle is within one frame step of it.
steeringReturn(st, dt) ==
    IF Abs(st) < STEERING_RETURN_SPEED * dt
    THEN 0
    ELSE st - Sign(st) * STEERING_RETURN_SPEED * dt

\* updateControls(input, dt): brake, reverse, throttle, rate-limited steering
\* and the effective steering angle of the front wheels.  Math.min and
\* Math.max of NaN are NaN, and so is NaN minus a number; the speed factor
\* Math.pow(speed / MAX_SPEED, 0.7) is NaN for a negative ratio.
updateControls(v, input, dt) ==
    LET st == v.steeringAngle
        steering ==
            IF Nan(v, "steeringAngle") THEN 0
            ELSE IF input.turnLeft
                 THEN Min(st + STEERING_SPEED * dt, MAX_STEERING_ANGLE)
            ELSE IF input.turnRight
                 THEN Max(st - STEERING_SPEED * dt, -MAX_STEERING_ANGLE)
            ELSE steeringReturn(st, dt)
    IN [v EXCEPT !.brake = IF input.brake THEN 1 ELSE 0,
                 !.reverse = IF input.reverse THEN 1 ELSE 0,
                 !.throttle = resolveThrottle(input),
                 !.steeringAngle = steering,
                 !.nan = IF Nan(v, "steeringAngle") \/ Nan(v, "speed") \/ v.speed < 0
                         THEN @ \cup {"effectiveSteeringAngle"}
                         ELSE @ \ {"effectiveSteeringAngle"}]

\* updateSuspension(dt, world): every wheel is at the vehicle's height, so a
\* wheel touches the ground when restLength - position.y > 0; Math.max(0, NaN)
\* is NaN, which is not > 0.
updateSuspension(v) ==
    [v EXCEPT !.isGrounded = ~Nan(v, "positionY")
                             /\ WHEEL_RADIUS + SUSPENSION_TRAVEL - v.position.y > 0]

\* A throttle branch whose force has the sign of a brake.
throttleForceReversed(v) == -(ACCELERATION * 2 * MILLI * v.throttle)

\* calculateForces lines 293-302: the throttle branch,
\* ACCELERATION * (1.8 * (1 - speedRatio)^1.5 + 0.2) * throttle.
throttleForce(v) ==
    LET speedRatio == Max(0, Min(UNIT, Div(v.speed, (MAX_SPEED * MILLI) \div UNIT)))
        rest == UNIT - speedRatio
        pow15 == MulDiv(rest, Sqrt(rest * UNIT), UNIT)
        accelerationMultiplier == (18 * pow15) \div 10 + (2 * UNIT) \div 10
    IN ((ACCELERATION * accelerationMultiplier) \div (UNIT \div MILLI)) * v.throttle

\* A braking branch of the strength of the reverse key's brake (2x).
brakeForceDouble(v) == -Sign(v.speed) * DECELERATION * 2 * MILLI * v.brake

\* calculateForces line 306: the braking branch.
brakeForce(v) == -Sign(v.speed) * DECELERATION * 6 * MILLI * v.brake

\* A reverse branch without the stronger braking stage for speeds in (0, 5].
reverseForceTwoStage(v) ==
    IF ~Nan(v, "speed") /\ v.speed > 0
    THEN -(DECELERATION * 2 * MILLI * v.reverse)
    ELSE -(((ACCELERATION * 4 * MILLI) \div 10) * v.reverse)

\* calculateForces lines 308-317: the reverse branch; a NaN speed is neither
\* > 5 nor > 0.
reverseForce(v) ==
    IF ~Nan(v, "speed") /\ v.speed > 5 * MILLI
    THEN -(DECELERATION * 2 * MILLI * v.reverse)
    ELSE IF ~Nan(v, "speed") /\ v.speed > 0
         THEN -(((DECELERATION * 25 * MILLI) \div 10) * v.reverse)
         ELSE -(((ACCELERATION * 4 * MILLI) \div 10) * v.reverse)

\* The tractive force of the keys whether or not a wheel touches the ground.
tractiveForceAirborne(v) ==
    IF v.throttle > 0 /\ ~Nan(v, "speed") /\ v.speed >= -MILLI
    THEN [f |-> throttleForce(v), nan |-> FALSE]
    ELSE IF v.brake > 0
         THEN [f |-> IF Nan(v, "speed") THEN 0 ELSE brakeForce(v),
               nan |-> Nan(v, "speed")]
    ELSE IF v.reverse > 0
         THEN [f |-> reverseForce(v), nan |-> FALSE]
    ELSE [f |-> IF Nan(v, "speed") THEN 0 ELSE -Sign(v.speed) * ENGINE_BRAKING * MILLI,
          nan |-> Nan(v, "speed")]

\* calculateForces lines 288-322: the tractive force and whether it is NaN.
tractiveForce(v) ==
    IF ~v.isGrounded
    THEN [f |-> 0, nan |-> FALSE]
    ELSE IF v.throttle > 0 /\ ~Nan(v, "speed") /\ v.speed >= -MILLI
         THEN [f |-> throttleForce(v), nan |-> FALSE]
    ELSE IF v.brake > 0
         THEN [f |-> IF Nan(v, "speed") THEN 0 ELSE brakeForce(v),
               nan |-> Nan(v, "speed")]
    ELSE IF v.reverse > 0
         THEN [f |-> reverseForce(v), nan |-> FALSE]
    ELSE [f |-> IF Nan(v, "speed") THEN 0 ELSE -Sign(v.speed) * ENGINE_BRAKING * MILLI,
          nan |-> Nan(v, "speed")]

\* calculateForces lines 348-387: the angular acceleration (1/10000 rad/s^2)
\* and the lateral acceleration of the drift branch.
corneringForces(v) ==
    LET s == Abs(v.speed)
        st == v.steeringAngle
        turning == v.isGrounded /\ ~Nan(v, "speed") /\ s > MILLI \div 2
        speedFactor == Max((2 * UNIT) \div 10, Min(UNIT, s \div 3))
        directionFactor == IF v.speed < 0 THEN -1 ELSE 1
        root == Sqrt(s * 200)
        angular == directionFactor *
                   MulDiv(MulDiv(st, root, (WHEEL_BASE * UNIT) \div 2), speedFactor, UNIT)
        drifting == turning /\ ~Nan(v, "steeringAngle")
                    /\ Abs(st) > (MILLI * MILLI) \div 4
                    /\ s > (MAX_SPEED * MILLI * 6) \div 10
        tractionLoss == Min((7 * UNIT) \div 10,
                            MulDiv(MulDivBig(Abs(st), UNIT, MAX_STEERING_ANGLE),
                                   s \div ((MAX_SPEED * MILLI) \div UNIT),
                                   (15 * UNIT) \div 10))
        speedDampening == MulDivBig(UNIT, 2000 * MILLI, 2000 * MILLI + s)
        driftAcceleration ==
            (MulDiv(MulDiv(s, tractionLoss, UNIT), speedDampening, UNIT) * 4) \div 10
        lateral == Sign(st) * directionFactor * driftAcceleration
    IN [angular |-> IF turning /\ ~Nan(v, "steeringAngle") THEN angular ELSE 0,
        nanAngular |-> turning /\ Nan(v, "steeringAngle"),
        lateral |-> IF drifting THEN lateral ELSE 0]

\* calculateForces line 325: the drag force of a speed s,
\* -sign(s) * DRAG_COEFFICIENT * s * s, computed whether grounded or not.
dragForce(s) ==
    -Sign(s) * MulDiv(MulDiv(Abs(s), Abs(s), 40 * MILLI), DRAG_COEFFICIENT, 2500)

\* calculateForces(dt).  A NaN speed makes the drag force NaN, hence the
\* total force and all three components of direction * forwardAcceleration
\* (0 * NaN is NaN); a NaN direction leaves the y component 0.
calculateForces(v, dt) ==
    LET ns == Nan(v, "speed")
        s == v.speed
        t == tractiveForce(v)
        drag == dragForce(s)
        rollingResistance ==
            IF v.isGrounded
            THEN -Sign(s) * (IF v.isOffRoad
                             THEN (Abs(s) * OFF_ROAD_FRICTION) \div 100
                             ELSE Abs(s) \div MILLI)
            ELSE 0
        totalLongitudinalForce == t.f + drag + rollingResistance
        forwardAcceleration == Div(totalLongitudinalForce, TOTAL_MASS)
        c == corneringForces(v)
        nanXZ == ns \/ Nan(v, "yaw")
        cleared == v.nan \ {"acceleration", "accelerationY",
                            "angularAcceleration", "tractiveForce"}
    IN [v EXCEPT
          !.acceleration =
              [x |-> IF nanXZ THEN 0
                     ELSE MulDiv(v.direction.x, forwardAcceleration, UNIT)
                          + MulDiv(v.right.x, c.lateral, UNIT),
               y |-> IF ns THEN 0 ELSE IF v.isGrounded THEN 0 ELSE -GRAVITY,
               z |-> IF nanXZ THEN 0
                     ELSE MulDiv(v.direction.z, forwardAcceleration, UNIT)
                          + MulDiv(v.right.z, c.lateral, UNIT)],
          !.angularAcceleration = c.angular,
          !.debug = [tractiveForce |-> t.f,
                     totalLongitudinalForce |-> IF ns THEN 0 ELSE totalLongitudinalForce],
          !.nan = cleared
                  \cup (IF nanXZ THEN {"acceleration"} ELSE {})
                  \cup (IF ns THEN {"accelerationY"} ELSE {})
                  \cup (IF c.nanAngular THEN {"angularAcceleration"} ELSE {})
                  \cup (IF t.nan THEN {"tractiveForce"} ELSE {})]

\* integrate line 415: acceleration . direction.
forwardAccel(v) ==
    MulDiv(v.acceleration.x, v.direction.x, UNIT)
    + MulDiv(v.acceleration.z, v.direction.z, UNIT)

\* integrate line 409: the forward speed the integration starts from,
\* velocity . direction.
forwardSpeed(v) ==
    MulDiv(v.velocity.x, v.direction.x, UNIT) + MulDiv(v.velocity.z, v.direction.z, UNIT)

\* integrate lines 405-436: forward speed from velocity . direction, the new
\* velocity, speed, angular velocity, rotation and position.
integrateMotion(v, dt) ==
    LET d == v.direction
        nanForward == Nan(v, "velocity") \/ Nan(v, "velocityY") \/ Nan(v, "yaw")
                      \/ Nan(v, "acceleration") \/ Nan(v, "accelerationY")
        nanVy == Nan(v, "velocityY") \/ Nan(v, "accelerationY")
        nanYaw == Nan(v, "yaw") \/ Nan(v, "angularAcceleration")
        forward == forwardSpeed(v)
        newForwardSpeed == forward + MulDiv(forwardAccel(v), dt, MILLI)
        lateralX == MulDiv(v.velocity.x - MulDiv(d.x, forward, UNIT), 98, 100)
        lateralZ == MulDiv(v.velocity.z - MulDiv(d.z, forward, UNIT), 98, 100)
        vx == IF nanForward THEN 0 ELSE MulDiv(d.x, newForwardSpeed, UNIT) + lateralX
        vz == IF nanForward THEN 0 ELSE MulDiv(d.z, newForwardSpeed, UNIT) + lateralZ
        vy == IF nanVy THEN 0 ELSE v.velocity.y + MulDiv(v.acceleration.y, dt, MILLI)
        angularVelocity == IF nanYaw THEN 0
                           ELSE v.angularVelocity + MulDiv(v.angularAcceleration, dt, MILLI)
        nanPosition == Nan(v, "position") \/ nanForward
        nanY == Nan(v, "positionY") \/ nanVy
    IN [v EXCEPT
          !.velocity = [x |-> vx, y |-> vy, z |-> vz],
          !.speed = IF nanForward THEN 0 ELSE newForwardSpeed,
          !.angularVelocity = angularVelocity,
          !.rotationY = IF nanYaw THEN 0 ELSE @ + MulDiv(angularVelocity, dt, MILLI),
          !.position =
              [x |-> IF nanPosition THEN 0 ELSE @.x + MulDiv(vx, dt, 10 * MILLI),
               y |-> IF nanY THEN 0 ELSE @.y + MulDiv(vy, dt, MILLI),
               z |-> IF nanPosition THEN 0 ELSE @.z + MulDiv(vz, dt, 10 * MILLI)],
          !.nan = (v.nan \ {"velocity", "velocityY", "speed", "yaw",
                            "position", "positionY"})
                  \cup (IF nanForward THEN {"velocity", "speed"} ELSE {})
                  \cup (IF nanVy THEN {"velocityY"} ELSE {})
                  \cup (IF nanYaw THEN {"yaw"} ELSE {})
                  \cup (IF nanPosition THEN {"position"} ELSE {})
                  \cup (IF nanY THEN {"positionY"} ELSE {})]

\* integrate lines 438-446: the ground check (NaN is not < 0.5).
groundCheck(v) ==
    IF ~Nan(v, "positionY") /\ v.position.y < MILLI \div 2
    THEN [v EXCEPT !.position.y = MILLI \div 2,
                   !.velocity.y = IF ~Nan(v, "velocityY") /\ @ < 0 THEN 0 ELSE @]
    ELSE v

\* integrate(dt): the motion, the ground check, the angular damping.
integrate(v, dt) ==
    LET g == groundCheck(integrateMotion(v, dt))
    IN [g EXCEPT !.angularVelocity = MulDiv(@, 97, 100)]

\* checkSurfaceInteraction lines 470-487: the index of the segment closest in
\* z when it is nearer than 30, else 0.  Only a segment nearer than 30 can be
\* the closest one that passes the test of line 490, and the strict < of line
\* 483 keeps the first of equally near segments.
closestSegment(segs, z) ==
    LET near == {k \in 1..Len(segs) : Abs(segs[k].z * CENTI - z) < 30 * CENTI}
        zDistance(k) == Abs(segs[k].z * CENTI - z)
    IN IF near = {}
       THEN 0
       ELSE CHOOSE k \in near :
                \A j \in near : zDistance(k) < zDistance(j)
                                \/ (zDistance(k) = zDistance(j) /\ k <= j)

\* checkSurfaceInteraction lines 464-518: isOffRoad and closestSegmentX.  No
\* segment rotates about y (positionRoadSegment resets rotation.y), so
\* localPoint.x is position.x - segment x.  With a NaN position no segment
\* is the closest and isOffRoad keeps its initial true.
surfaceUnder(v, w) ==
    IF w.hasSegments
    THEN IF Nan(v, "position")
         THEN [isOffRoad |-> TRUE, x |-> 0, nanX |-> FALSE]
         ELSE LET k == closestSegment(w.roadSegments, v.position.z)
              IN IF k = 0
                 THEN [isOffRoad |-> TRUE, x |-> 0, nanX |-> FALSE]
                 ELSE LET localX == v.position.x
                                    - Div(w.roadSegments[k].x, XSCALE \div CENTI)
                      IN [isOffRoad |-> Abs(localX) > ROAD_HALF_WIDTH * CENTI,
                          x |-> localX, nanX |-> FALSE]
    ELSE [isOffRoad |-> ~Nan(v, "position")
                        /\ Abs(v.position.x) > ROAD_HALF_WIDTH * CENTI,
          x |-> v.position.x, nanX |-> Nan(v, "position")]

\* An edge test that forgets the previous off-road state.
offRoadEdgeEveryFrame(wasOffRoad, nanSpeed, speed) ==
    ~nanSpeed /\ Abs(speed) > 20 * MILLI

\* checkSurfaceInteraction line 538: the one-time effects fire when the
\* vehicle was on the road before and |speed| > 20 (false for a NaN speed).
offRoadEdge(wasOffRoad, nanSpeed, speed) ==
    ~wasOffRoad /\ ~nanSpeed /\ Abs(speed) > 20 * MILLI

\* checkSurfaceInteraction(world, dt): the off-road decay, the steering
\* suggestion when no turn key is held, the edge effect on entering.
checkSurfaceInteraction(v, w, dt) ==
    LET wasOffRoad == v.isOffRoad
        u == surfaceUnder(v, w)
        ns == Nan(v, "speed")
        decayed == MulDiv(v.speed, 9998, UNIT)
        suggest == ~v.input.turnLeft /\ ~v.input.turnRight
        nanRoadForce == ns \/ u.nanX
        roadForce == -Sign(u.x) * MulDiv(dt, Min(5 * MILLI, decayed), 2 * MILLI)
        steering == MulDiv(v.steeringAngle, 99, 100) + Div(roadForce, 100)
        nanSteering == Nan(v, "steeringAngle") \/ nanRoadForce
        edge == offRoadEdge(wasOffRoad, ns, decayed)
        speedReduction == Min(Abs(decayed) \div 200, (OFF_ROAD_DAMAGE * MILLI) \div 4)
    IN IF ~u.isOffRoad
       THEN [v EXCEPT !.isOffRoad = FALSE, !.wasOffRoad = FALSE]
       ELSE [v EXCEPT
               !.isOffRoad = TRUE,
               !.wasOffRoad = TRUE,
               !.speed = IF ns THEN 0
                         ELSE IF edge THEN Sign(decayed) * (Abs(decayed) - speedReduction)
                         ELSE decayed,
               !.steeringAngle = IF ~suggest THEN @
                                 ELSE IF nanSteering THEN 0 ELSE steering,
               !.velocity.y = IF edge /\ ~Nan(v, "velocityY")
                              THEN @ + (3 * MILLI) \div 10 ELSE @,
               !.nan = IF suggest /\ nanSteering
                       THEN @ \cup {"steeringAngle"} ELSE @]

\* updateVehicleVectors(): direction and right from rotation.y.
updateVehicleVectors(v) ==
    IF Nan(v, "yaw")
    THEN [v EXCEPT !.direction = [x |-> 0, z |-> 0], !.right = [x |-> 0, z |-> 0]]
    ELSE [v EXCEPT !.direction = [x |-> Sin(v.rotationY), z |-> Cos(v.rotationY)],
                   !.right = [x |-> Cos(v.rotationY), z |-> -Sin(v.rotationY)]]

\* update line 123: the time step.
timeStep(deltaTime) == Min(deltaTime, 100)

\* The vehicle when calculateForces is entered.
beforeForces(v, input, deltaTime) ==
    updateSuspension(
        updateControls(
            updateInitialBoost([v EXCEPT !.input = input, !.wasOffRoad = v.isOffRoad],
                               input),
            input, timeStep(deltaTime)))

\* Vehicle.update(input, deltaTime, world).
vehicleUpdate(v, input, deltaTime, w) ==
    LET dt == timeStep(deltaTime)
        forces == calculateForces(beforeForces(v, input, deltaTime), dt)
    IN updateVehicleVectors(checkSurfaceInteraction(integrate(forces, dt), w, dt))

\* collideWithObstacle(); kick is (Math.random() - 0.5) * 0.2 in 1/10000 rad.
\* speed / oldSpeed is NaN when oldSpeed is 0, and the velocity it scales is
\* NaN in all components before velocity.y is set.
collideWithObstacle(v, kick) ==
    LET ns == Nan(v, "speed")
        oldSpeed == v.speed
        speedReduction == Min(Abs(oldSpeed), 60 * MILLI)
        speed == Sign(oldSpeed) * Max(0, Abs(oldSpeed) - speedReduction)
        nanVelocity == ns \/ oldSpeed = 0 \/ Nan(v, "velocity")
        low == ~Nan(v, "positionY") /\ v.position.y < MILLI \div 2
    IN [v EXCEPT
          !.speed = IF ns THEN 0 ELSE speed,
          !.velocity =
              [x |-> IF nanVelocity THEN 0
                     ELSE MulDivBig(@.x, Abs(speed), Abs(oldSpeed)),
               y |-> MILLI \div 2,
               z |-> IF nanVelocity THEN 0
                     ELSE MulDivBig(@.z, Abs(speed), Abs(oldSpeed))],
          !.angularVelocity = IF Nan(v, "yaw") THEN 0 ELSE @ + kick,
          !.position.y = IF low THEN MILLI \div 2 ELSE @,
          !.nan = (@ \ {"velocityY"})
                  \cup (IF nanVelocity THEN {"velocity"} ELSE {})]

\* Game.checkCollisions(): an obstacle hit calls collideWithObstacle, a
\* collectible hit sets speed = Math.min(speed + 2, MAX_SPEED).
checkCollisions(v, hit) ==
    LET c == IF hit.obstacle THEN collideWithObstacle(v, hit.kick) ELSE v
    IN IF hit.collectible /\ ~Nan(c, "speed")
       THEN [c EXCEPT !.speed = Min(@ + 2 * MILLI, MAX_SPEED * MILLI)]
       ELSE c

\* The world state Game.update hands to Vehicle.update: getWorldState() with
\* the road segments attached (main module line 201).
getWorldState(w) == [hasSegments |-> TRUE, roadSegments |-> w.roadSegments]

(***************************************************************************)
(* The curvature function as a pure function: a query position is drawn,   *)
(* the function is evaluated there and one repeat length further on.       *)
(***************************************************************************)
CurveZMax == 2100

InitCurve ==
    /\ vehicle = NewVehicle
    /\ world = createRoad
    /\ game = NewGame
    /\ curve \in {[phase |-> "query", z |-> z, x |-> 0, xNextCycle |-> 0] :
                     z \in (-CurveZMax)..CurveZMax}

QueryTrackX ==
    /\ curve.phase = "query"
    /\ curve' = [curve EXCEPT !.phase = "done",
                              !.x = getTrackXPositionAtZ(curve.z),
                              !.xNextCycle = getTrackXPositionAtZ(curve.z + ROAD_LENGTH)]
    /\ UNCHANGED <<vehicle, world, game>>

NextCurve == QueryTrackX

SpecCurve == InitCurve /\ [][NextCurve]_vars

(***************************************************************************)
(* The road under a vehicle that advances by a fixed distance per frame:   *)
(* Game.update with vehicle.update replaced by the advance, then           *)
(* GameWorld.update.  drive.dt is the frame's deltaTime in ms, drive.adv   *)
(* the distance covered in whole units (at most MAX_SPEED * dt).           *)
(***************************************************************************)
MaxRoadFrames == 120

DriveSet ==
    {[dt |-> 100, adv |-> 500], [dt |-> 100, adv |-> 300],
     [dt |-> 100, adv |-> 100], [dt |-> 16, adv |-> 80]}

InitRoad ==
    /\ vehicle = NewVehicle
    /\ world = createRoad
    /\ game = NewGame
    /\ curve = NoCurve

\* Game.update up to and including the vehicle's move: the update counter,
\* the first-frame road check (recycleRoadSegments(0) when the road is
\* shorter than 10000), the vehicle's advance.
DriveStep ==
    /\ game.pc = "frame"
    /\ game.updateCount < MaxRoadFrames
    /\ \E d \in DriveSet :
          /\ game.updateCount = 0 \/ d = game.drive
          /\ game' = [game EXCEPT !.updateCount = game.updateCount + 1,
                                  !.gameTime = game.gameTime + d.dt,
                                  !.lastDt = d.dt,
                                  !.drive = d,
                                  !.pc = "world"]
          /\ vehicle' = [vehicle EXCEPT !.position.z = vehicle.position.z + d.adv * CENTI,
                                        !.speed = (d.adv * MILLI * MILLI) \div d.dt]
    /\ world' = IF game.updateCount + 1 = 1 /\ Len(world.roadSegments) > 0
                   /\ world.roadZMax < 10000
                THEN recycleRoadSegments(world, 0)
                ELSE world
    /\ UNCHANGED curve

\* The rest of Game.update: the first-minute emergency check, then
\* GameWorld.update with the vehicle's speed and position.
gameRoadCheck(w, g, playerZ) ==
    IF g.gameTime < 60 * MILLI /\ g.updateCount % 30 = 0
       /\ w.roadZMax * CENTI - playerZ < 500 * CENTI
    THEN recycleRoadSegments(w, playerZ)
    ELSE w

WorldStep ==
    /\ game.pc = "world"
    /\ world' = worldUpdate(gameRoadCheck(world, game, vehicle.position.z),
                            vehicle.speed, vehicle.position.z)
    /\ game' = [game EXCEPT !.pc = "frame"]
    /\ UNCHANGED <<vehicle, curve>>

NextRoad == DriveStep \/ WorldStep

SpecRoad == InitRoad /\ [][NextRoad]_vars

(***************************************************************************)
(* The vehicle driven directly: update calls with any input flags and a    *)
(* deltaTime from DtSet, and collision responses, from a state a caller    *)
(* has set up.  The road is the one createRoad built.                      *)
(***************************************************************************)
MaxFrames == 1

MaxCollisions == 1

\* Caps that keep the arithmetic inside 32 bits: units/s, units (x and z), units (y), rad, rad/s.
SpeedCap == 8000

PositionCap == 10000000

HeightCap == 100000

SteerCap == 4

YawCap == 1000

InRange(v) ==
    /\ Abs(v.speed) <= SpeedCap * MILLI
    /\ Abs(v.velocity.x) <= SpeedCap * MILLI
    /\ Abs(v.velocity.y) <= SpeedCap * MILLI
    /\ Abs(v.velocity.z) <= SpeedCap * MILLI
    /\ Abs(v.position.x) <= PositionCap * CENTI
    /\ Abs(v.position.y) <= HeightCap * MILLI
    /\ Abs(v.position.z) <= PositionCap * CENTI
    /\ Abs(v.steeringAngle) <= SteerCap * MILLI * MILLI
    /\ Abs(v.angularVelocity) <= YawCap * UNIT
    /\ Abs(v.rotationY) <= YawCap * UNIT

\* getInputState(): the five key flags.
InputSet ==
    [accelerate : BOOLEAN, brake : BOOLEAN, reverse : BOOLEAN,
     turnLeft : BOOLEAN, turnRight : BOOLEAN, isNull : {FALSE}]

\* deltaTime values in ms: negative, zero, a 60 Hz frame, above the cap.
DtSet == {-16, 0, 16, 250}

\* The outcomes of one Game.checkCollisions: an obstacle hit with the least
\* and the greatest random kick, a collectible, both.
HitSet ==
    {[obstacle |-> TRUE, collectible |-> FALSE, kick |-> -(UNIT \div 10)],
     [obstacle |-> TRUE, collectible |-> FALSE, kick |-> UNIT \div 10 - 1],
     [obstacle |-> FALSE, collectible |-> TRUE, kick |-> 0],
     [obstacle |-> TRUE, collectible |-> TRUE, kick |-> 0]}

\* States a caller sets up through the vehicle's public fields: the
\* constructor's, the game's start (position.y = 1.0), below ground and
\* falling (y = -5), forward at speed 100, backward at speed 50, forward at
\* speed 5, airborne
\* and falling, off the road's edge at speed 100.
InjectedVehicles ==
    {NewVehicle,
     [NewVehicle EXCEPT !.position.y = MILLI],
     [NewVehicle EXCEPT !.position.y = -5 * MILLI, !.velocity.y = -2 * MILLI],
     [NewVehicle EXCEPT !.speed = 100 * MILLI, !.velocity.z = 100 * MILLI],
     [NewVehicle EXCEPT !.speed = -50 * MILLI, !.velocity.z = -50 * MILLI],
     [NewVehicle EXCEPT !.speed = 5 * MILLI, !.velocity.z = 5 * MILLI],
     [NewVehicle EXCEPT !.position.y = 2 * MILLI, !.velocity.y = -MILLI,
                        !.speed = 100 * MILLI, !.velocity.z = 100 * MILLI],
     [NewVehicle EXCEPT !.position.x = 16 * CENTI,
                        !.speed = 100 * MILLI, !.velocity.z = 100 * MILLI]}

\* What one update call went through: the time step used, the state before,
\* the speed calculateForces read, the height and vertical velocity the
\* ground check met and left, |forwardAccel * dt|, the steering angle before
\* the call and after updateControls, isOffRoad and velocity.y before the
\* call, and the speed checkSurfaceInteraction met.
updateProbe(v, input, deltaTime) ==
    LET dt == timeStep(deltaTime)
        b == beforeForces(v, input, deltaTime)
        f == calculateForces(b, dt)
        m == integrateMotion(f, dt)
    IN [dt |-> dt,
        prevY |-> v.position.y,
        prevSpeed |-> v.speed,
        speedAtForces |-> b.speed,
        nanAtForces |-> Nan(b, "speed"),
        yBeforeGround |-> m.position.y,
        vyBeforeGround |-> m.velocity.y,
        nanBeforeGround |-> Nan(m, "positionY") \/ Nan(m, "velocityY"),
        vyAfterIntegrate |-> integrate(f, dt).velocity.y,
        accelDt |-> Abs(MulDiv(forwardAccel(f), dt, MILLI)),
        prevSteering |-> v.steeringAngle,
        steeringAtForces |-> b.steeringAngle,
        prevIsOffRoad |-> v.isOffRoad,
        prevVy |-> v.velocity.y,
        speedAtSurface |-> integrate(f, dt).speed,
        nanAtSurface |-> Nan(integrate(f, dt), "speed")]

InitVehicle ==
    /\ vehicle \in InjectedVehicles
    /\ world = createRoad
    /\ game = NewGame
    /\ curve = NoCurve

Update ==
    /\ game.updateCount < MaxFrames
    /\ InRange(vehicle)
    /\ \E input \in InputSet, deltaTime \in DtSet :
          /\ vehicle' = vehicleUpdate(vehicle, input, deltaTime, getWorldState(world))
          /\ game' = [game EXCEPT !.updateCount = @ + 1,
                                  !.last = "update",
                                  !.offRoadUpdates =
                                      @ + (IF vehicle'.isOffRoad THEN 1 ELSE 0),
                                  !.lastDt = deltaTime,
                                  !.probe = updateProbe(vehicle, input, deltaTime)]
    /\ UNCHANGED <<world, curve>>

CheckCollisions ==
    /\ game.collisions < MaxCollisions
    /\ \E hit \in HitSet : vehicle' = checkCollisions(vehicle, hit)
    /\ game' = [game EXCEPT !.collisions = @ + 1, !.last = "collide"]
    /\ UNCHANGED <<world, curve>>

NextVehicle == Update \/ CheckCollisions

SpecVehicle == InitVehicle /\ [][NextVehicle]_vars

\* The game loop (main module, animate) asks for the next animation frame
\* before it runs an update, so updates keep coming: the step that
\* completes one more update is taken while the frame budget lasts.  Every
\* update step of a run satisfies the second disjunct; the first is one such
\* step written out as assignments, from which TLC evaluates ENABLED.
UpdateCompletes(budget) ==
    /\ InRange(vehicle)
    /\ game.updateCount < budget
    /\ \/ /\ game' = [game EXCEPT !.updateCount = @ + 1]
          /\ UNCHANGED <<vehicle, world, curve>>
       \/ game'.updateCount = game.updateCount + 1

(***************************************************************************)
(* The vehicle from its constructor with the keys and the frame time held: *)
(* the first update picks them, every later update repeats them.           *)
(***************************************************************************)
MaxHeldFrames == 15

Keys(ks) ==
    [accelerate |-> "accelerate" \in ks, brake |-> "brake" \in ks,
     reverse |-> "reverse" \in ks, turnLeft |-> "turnLeft" \in ks,
     turnRight |-> "turnRight" \in ks, isNull |-> FALSE]

Held(ks, deltaTime) == [input |-> Keys(ks), deltaTime |-> deltaTime]

HeldSet ==
    {Held({}, 16), Held({}, -16),
     Held({"accelerate"}, 16), Held({"accelerate"}, 100), Held({"accelerate"}, 250),
     Held({"brake"}, 16), Held({"accelerate", "brake"}, 16),
     Held({"reverse"}, 16), Held({"reverse"}, 100), Held({"reverse"}, -100 * MILLI),
     Held({"turnLeft"}, 16), Held({"turnLeft"}, -MILLI),
     Held({"accelerate", "turnLeft"}, 100),
     Held({"accelerate", "turnRight"}, 16), Held({"reverse", "turnRight"}, 100)}

InitHeld ==
    /\ vehicle = NewVehicle
    /\ world = createRoad
    /\ game = NewGame
    /\ curve = NoCurve

HeldUpdate ==
    /\ game.updateCount < MaxHeldFrames
    /\ InRange(vehicle)
    /\ \E h \in HeldSet :
          /\ game.updateCount = 0 \/ h = game.held
          /\ vehicle' = vehicleUpdate(vehicle, h.input, h.deltaTime, getWorldState(world))
          /\ game' = [game EXCEPT !.updateCount = @ + 1,
                                  !.last = "update",
                                  !.offRoadUpdates =
                                      @ + (IF vehicle'.isOffRoad THEN 1 ELSE 0),
                                  !.lastDt = h.deltaTime,
                                  !.held = h,
                                  !.probe = updateProbe(vehicle, h.input, h.deltaTime)]
    /\ UNCHANGED <<world, curve>>

NextHeld == HeldUpdate \/ CheckCollisions

SpecHeld == InitHeld /\ [][NextHeld]_vars

(***************************************************************************)
(* The launch: the vehicle from its constructor with only the accelerate   *)
(* key held, every update at the frame time the first update picked.       *)
(***************************************************************************)
MaxLaunchFrames == 60

\* Frame times in ms: zero, 200 Hz, 60 Hz, the cap, above the cap.
LaunchDtSet == {0, 5, 16, 100, 250}

LaunchSet == {Held({"accelerate"}, deltaTime) : deltaTime \in LaunchDtSet}

InitLaunch ==
    /\ vehicle = NewVehicle
    /\ world = createRoad
    /\ game = NewGame
    /\ curve = NoCurve

LaunchUpdate ==
    /\ game.updateCount < MaxLaunchFrames
    /\ InRange(vehicle)
    /\ \E h \in LaunchSet :
          /\ game.updateCount = 0 \/ h = game.held
          /\ vehicle' = vehicleUpdate(vehicle, h.input, h.deltaTime, getWorldState(world))
          /\ game' = [game EXCEPT !.updateCount = @ + 1,
                                  !.last = "update",
                                  !.offRoadUpdates =
                                      @ + (IF vehicle'.isOffRoad THEN 1 ELSE 0),
                                  !.lastDt = h.deltaTime,
                                  !.held = h,
                                  !.probe = updateProbe(vehicle, h.input, h.deltaTime)]
    /\ UNCHANGED <<world, curve>>

NextLaunch == LaunchUpdate

SpecLaunch == InitLaunch /\ [][NextLaunch]_vars

(***************************************************************************)
(* Steering: the vehicle from its constructor with a turn key held for up  *)
(* to MaxTurnFrames updates, then with no turn key held.  Each phase keeps *)
(* the keys and the frame time its first update picked, and the game loop  *)
(* keeps calling update.                                                   *)
(***************************************************************************)
MaxTurnFrames == 4

MaxSteerFrames == 15

\* Frame times in ms: four updates at the cap take the steering from 0 to
\* its maximum.
TurnSet ==
    {Held(ks, deltaTime) :
        ks \in {{"turnLeft"}, {"turnRight"},
                {"accelerate", "turnLeft"}, {"accelerate", "turnRight"}},
        deltaTime \in {16, 100}}

\* At 60 Hz the return from the maximum takes ten updates.
ReleaseSet ==
    {Held(ks, deltaTime) :
        ks \in {{}, {"accelerate"}, {"brake"}, {"reverse"}},
        deltaTime \in {16, 100}}

InitSteer ==
    /\ vehicle = NewVehicle
    /\ world = createRoad
    /\ game = NewGame
    /\ curve = NoCurve

SteerStep(h) ==
    /\ InRange(vehicle)
    /\ vehicle' = vehicleUpdate(vehicle, h.input, h.deltaTime, getWorldState(world))
    /\ game' = [game EXCEPT !.updateCount = @ + 1,
                            !.last = "update",
                            !.offRoadUpdates = @ + (IF vehicle'.isOffRoad THEN 1 ELSE 0),
                            !.lastDt = h.deltaTime,
                            !.held = h,
                            !.probe = updateProbe(vehicle, h.input, h.deltaTime)]
    /\ UNCHANGED <<world, curve>>

TurnUpdate ==
    /\ game.updateCount < MaxTurnFrames
    /\ \E h \in TurnSet :
          /\ game.updateCount = 0 \/ h = game.held
          /\ SteerStep(h)

ReleaseUpdate ==
    /\ game.updateCount >= 1
    /\ game.updateCount < MaxSteerFrames
    /\ \E h \in ReleaseSet :
          /\ game.held \in TurnSet \/ h = game.held
          /\ SteerStep(h)

NextSteer == TurnUpdate \/ ReleaseUpdate

\* NextSteer has an update to take while the frame budget lasts (a turn
\* update, or a release update once a turn update was made), and the game
\* loop takes it.
SpecSteer ==
    InitSteer /\ [][NextSteer]_vars /\ WF_vars(UpdateCompletes(MaxSteerFrames))

(***************************************************************************)
(* The vehicle updated without road data: update(input, deltaTime, world)  *)
(* with a world that is missing or has no roadSegments (the test of line   *)
(* 468 is false), or whose roadSegments is an empty array (an empty array  *)
(* is truthy, so the test is true and the loop of line 474 runs over       *)
(* nothing).                                                               *)
(***************************************************************************)
MaxNoRoadFrames == 1

NoRoadWorlds ==
    {[hasSegments |-> FALSE, roadSegments |-> <<>>],
     [hasSegments |-> TRUE, roadSegments |-> <<>>]}

\* Frame times in ms: zero, a 60 Hz frame, the cap.
NoRoadDtSet == {0, 16, 100}

InitNoRoad ==
    /\ vehicle \in InjectedVehicles
    /\ world = createRoad
    /\ game = NewGame
    /\ curve = NoCurve

NoRoadUpdate ==
    /\ game.updateCount < MaxNoRoadFrames
    /\ InRange(vehicle)
    /\ \E input \in InputSet, deltaTime \in NoRoadDtSet, w \in NoRoadWorlds :
          /\ vehicle' = vehicleUpdate(vehicle, input, deltaTime, w)
          /\ game' = [game EXCEPT !.updateCount = @ + 1,
                                  !.last = "update",
                                  !.offRoadUpdates =
                                      @ + (IF vehicle'.isOffRoad THEN 1 ELSE 0),
                                  !.lastDt = deltaTime,
                                  !.probe = updateProbe(vehicle, input, deltaTime)]
    /\ UNCHANGED <<world, curve>>

NextNoRoad == NoRoadUpdate

SpecNoRoad == InitNoRoad /\ [][NextNoRoad]_vars

(***************************************************************************)
(* Obstacles (GameWorld, part_001).  An obstacle is its position.z in      *)
(* 1/100 units, times are in ms.  Each frame the vehicle advances by a     *)
(* constant distance (as in the road runs) and the elapsed game time grows *)
(* by the time since the last frame; Math.random() is a choice.            *)
(***************************************************************************)
maxObstacleCount == 6

\* The constructor's obstacle fields (lines 76-87) beside the road.
NewObstacles ==
    [obstacles |-> <<>>, lastObstacleTime |-> 0, lastObstaclePositions |-> <<>>]

\* GameWorld.checkCollisions lines 1232-1247: the obstacles the player box
\* intersects are removed; hit is the set of their indices.
removeObstacles(obs, hit) ==
    LET keep(k) == k \notin hit
        RECURSIVE pick(_)
        pick(k) == IF k > Len(obs) THEN <<>>
                   ELSE IF keep(k) THEN <<obs[k]>> \o pick(k + 1) ELSE pick(k + 1)
    IN pick(1)

\* updateObstacles lines 982-1001: obstacles more than 150 behind the player
\* are removed.
updateObstacles(o, playerZ) ==
    [o EXCEPT !.obstacles =
        removeObstacles(@, {k \in 1..Len(@) : playerZ - @[k] > 150 * CENTI})]

\* A cap test that always lets the spawn through.
belowCapAlways(o) == TRUE

\* spawnObjects line 1085: only spawn below the maximum obstacle count.
belowCap(o) == Len(o.obstacles) < maxObstacleCount

\* spawnObjects lines 1074-1121, the obstacle part: rnd.ahead is
\* Math.random() * 50 and rnd.chance is Math.random() < 0.7.
spawnObjects(o, gameTime, playerSpeed, playerZ, rnd) ==
    IF playerSpeed <= 0
    THEN o
    ELSE IF gameTime - o.lastObstacleTime > 4 * MILLI
    THEN LET obstacleZ == playerZ + 150 * CENTI + rnd.ahead
             tooClose == \E k \in 1..Len(o.lastObstaclePositions) :
                             Abs(obstacleZ - o.lastObstaclePositions[k]) < 50 * CENTI
             spawned == belowCap(o) /\ ~tooClose /\ rnd.chance
             positions == Append(o.lastObstaclePositions, obstacleZ)
         IN [o EXCEPT
               !.obstacles = IF spawned THEN Append(@, obstacleZ) ELSE @,
               !.lastObstaclePositions =
                   IF ~spawned THEN @
                   ELSE IF Len(positions) > 10 THEN Tail(positions) ELSE positions,
               !.lastObstacleTime = gameTime]
    ELSE o

(***************************************************************************)
(* The obstacle runs: frames of the game at a constant advance, each       *)
(* followed by a collision pass.  The world is the road with the obstacle  *)
(* fields.                                                                 *)
(***************************************************************************)
MaxSpawnFrames == 8

MaxSpawnCollisions == 1

\* Per frame: the time since the last frame in ms, the distance covered in
\* units: parked, 10 units/s, 80 units/s.
SpawnDriveSet ==
    {[dt |-> 5 * MILLI, adv |-> 0], [dt |-> 5 * MILLI, adv |-> 50],
     [dt |-> 5 * MILLI, adv |-> 400], [dt |-> 2 * MILLI, adv |-> 20]}

\* Math.random() at its least and (nearly) greatest for the distance ahead,
\* and on either side of 0.7 for the spawn chance.
RandomSet ==
    {[ahead |-> 0, chance |-> TRUE], [ahead |-> 50 * CENTI - 1, chance |-> TRUE],
     [ahead |-> 0, chance |-> FALSE]}

InitSpawn ==
    /\ vehicle = NewVehicle
    /\ world = createRoad @@ NewObstacles
    /\ game = NewGame
    /\ curve = NoCurve

\* Game.update: the vehicle's advance, the road checks and GameWorld.update
\* (updateRoad, updateObstacles, spawnObjects).
SpawnFrame ==
    /\ game.pc = "frame"
    /\ game.updateCount < MaxSpawnFrames
    /\ \E d \in SpawnDriveSet, rnd \in RandomSet :
          /\ game.updateCount = 0 \/ d = game.drive
          /\ game' = [game EXCEPT !.updateCount = game.updateCount + 1,
                                  !.gameTime = game.gameTime + d.dt,
                                  !.lastDt = d.dt,
                                  !.drive = d,
                                  !.last = "update",
                                  !.pc = "collide"]
          /\ vehicle' = [vehicle EXCEPT !.position.z = vehicle.position.z + d.adv * CENTI,
                                        !.speed = (d.adv * MILLI * MILLI) \div d.dt]
          /\ world' = spawnObjects(
                          updateObstacles(
                              worldUpdate(
                                  gameRoadCheck(
                                      IF game.updateCount + 1 = 1
                                         /\ Len(world.roadSegments) > 0
                                         /\ world.roadZMax < 10000
                                      THEN recycleRoadSegments(world, 0)
                                      ELSE world,
                                      game', vehicle'.position.z),
                                  vehicle'.speed, vehicle'.position.z),
                              vehicle'.position.z),
                          game'.gameTime, vehicle'.speed, vehicle'.position.z, rnd)
    /\ UNCHANGED curve

\* Game.checkCollisions: GameWorld.checkCollisions removes the obstacles the
\* vehicle's box intersects (none, or one of them).
SpawnCollide ==
    /\ game.pc = "collide"
    /\ \E hit \in {{}} \cup (IF game.collisions < MaxSpawnCollisions
                              THEN {{k} : k \in 1..Len(world.obstacles)} ELSE {}) :
          /\ world' = [world EXCEPT !.obstacles = removeObstacles(@, hit)]
          /\ game' = [game EXCEPT !.pc = "frame",
                                  !.last = IF hit = {} THEN @ ELSE "collide",
                                  !.collisions = @ + Cardinality(hit)]
    /\ UNCHANGED <<vehicle, curve>>

NextSpawn == SpawnFrame \/ SpawnCollide

SpecSpawn == InitSpawn /\ [][NextSpawn]_vars

(***************************************************************************)
(* Braking: a vehicle a caller has set up at a speed of at most 5, updated *)
(* with only the brake key held, every update at the frame time the first  *)
(* update picked.  At 60 Hz the brake takes 0.16 off the speed per update, *)
(* so a stop from speed 5 needs 32 updates.                                *)
(***************************************************************************)
MaxBrakeFrames == 40

BrakeSet == {Held({"brake"}, 16), Held({"brake"}, 100)}

InitBrake ==
    /\ vehicle \in {v \in InjectedVehicles : Abs(v.speed) <= 5 * MILLI}
    /\ world = createRoad
    /\ game = NewGame
    /\ curve = NoCurve

BrakeUpdate ==
    /\ game.updateCount < MaxBrakeFrames
    /\ InRange(vehicle)
    /\ \E h \in BrakeSet :
          /\ game.updateCount = 0 \/ h = game.held
          /\ vehicle' = vehicleUpdate(vehicle, h.input, h.deltaTime, getWorldState(world))
          /\ game' = [game EXCEPT !.updateCount = @ + 1,
                                  !.last = "update",
                                  !.offRoadUpdates =
                                      @ + (IF vehicle'.isOffRoad THEN 1 ELSE 0),
                                  !.lastDt = h.deltaTime,
                                  !.held = h,
                                  !.probe = updateProbe(vehicle, h.input, h.deltaTime)]
    /\ UNCHANGED <<world, curve>>

NextBrake == BrakeUpdate

SpecBrake ==
    InitBrake /\ [][NextBrake]_vars /\ WF_vars(UpdateCompletes(MaxBrakeFrames))

(***************************************************************************)
(* Throttle and turn: the vehicle from its constructor with the accelerate *)
(* key and a turn key held, every update at the frame time the first       *)
(* update picked.                                                          *)
(***************************************************************************)
MaxDriftFrames == 200

DriftSet ==
    {Held({"accelerate", turn}, deltaTime) :
        turn \in {"turnLeft", "turnRight"}, deltaTime \in {16, 100}}

InitDrift ==
    /\ vehicle = NewVehicle
    /\ world = createRoad
    /\ game = NewGame
    /\ curve = NoCurve

DriftUpdate ==
    /\ game.updateCount < MaxDriftFrames
    /\ InRange(vehicle)
    /\ \E h \in DriftSet :
          /\ game.updateCount = 0 \/ h = game.held
          /\ vehicle' = vehicleUpdate(vehicle, h.input, h.deltaTime, getWorldState(world))
          /\ game' = [game EXCEPT !.updateCount = @ + 1,
                                  !.last = "update",
                                  !.offRoadUpdates =
                                      @ + (IF vehicle'.isOffRoad THEN 1 ELSE 0),
                                  !.lastDt = h.deltaTime,
                                  !.held = h,
                                  !.probe = updateProbe(vehicle, h.input, h.deltaTime)]
    /\ UNCHANGED <<world, curve>>

NextDrift == DriftUpdate

SpecDrift ==
    InitDrift /\ [][NextDrift]_vars /\ WF_vars(UpdateCompletes(MaxDriftFrames))

(***************************************************************************)
(* Road claims.                                                            *)
(***************************************************************************)
\* C5: after road creation and after any sequence of recycling passes, every
\* segment's stored lateral offset equals the curvature function evaluated
\* at the segment's current z.
C5_SegmentOffsetsCurrent ==
    \A k \in 1..Len(world.roadSegments) :
        world.roadSegments[k].x = getTrackXPositionAtZ(world.roadSegments[k].z)

\* C5 witness: a whole frame has ended with a segment that was moved beyond
\* the created road and whose offset differs from the one it was created
\* with, and the offsets are current.
C5_Witness ==
    /\ game.pc = "frame"
    /\ \E k \in 1..Len(world.roadSegments) :
          /\ world.roadSegments[k].z > createRoad.roadZMax
          /\ world.roadSegments[k].x # createRoadSegment(k - 1).x
    /\ C5_SegmentOffsetsCurrent

\* C6: for a vehicle advancing by at most MAX_SPEED * dt per frame, with the
\* world updated once per frame, roadZMax minus the vehicle's z is never
\* negative once the frame's world update has run.
C6_RoadNeverRunsOut ==
    game.pc = "frame" => world.roadZMax * CENTI - vehicle.position.z >= 0

(***************************************************************************)
(* Curvature claims.                                                       *)
(***************************************************************************)
\* C4: the curvature function is periodic with period ROAD_LENGTH for every
\* z, negative z included: the value at z equals the value at z + ROAD_LENGTH.
C4_Periodic ==
    curve.phase = "done" => curve.x = curve.xNextCycle

\* C9: there is no jump at a control point: where the cycle position is a
\* control point's, the returned offset is that point's turn * LANE_WIDTH * 5,
\* and the preceding bracket evaluated at its end (eased fraction 1) gives
\* the same value; the last bracket's end meets the first bracket's start.
C9_NoJumpAtControlPoints ==
    curve.phase = "done" =>
        \A j \in 1..Len(trackPoints) :
            JsRem(curve.z, ROAD_LENGTH) = PosZ(trackPoints[j]) % ROAD_LENGTH =>
                /\ j < Len(trackPoints) => curve.x = TurnX(trackPoints[j]) * XSCALE
                /\ j > 1 => trackOffset(trackPoints[j - 1], trackPoints[j],
                                        PosZ(trackPoints[j])) = curve.x

\* C9 witness: the function has been evaluated at the second control point
\* (the hard left turn) and returned its non-zero offset.
C9_Witness ==
    /\ curve.phase = "done"
    /\ JsRem(curve.z, ROAD_LENGTH) = PosZ(trackPoints[2])
    /\ curve.x = TurnX(trackPoints[2]) * XSCALE
    /\ curve.x # 0

(***************************************************************************)
(* Vehicle claims.                                                         *)
(***************************************************************************)
\* C1: after every update whose input has both the accelerate and the brake
\* flag set, the resolved throttle is 0 and the brake is 1, whatever the
\* prior state and the other flags.
C1_BrakeOverridesThrottle ==
    game.last = "update" /\ vehicle.input.accelerate /\ vehicle.input.brake
        => vehicle.throttle = 0 /\ vehicle.brake = 1

\* C1 witness: an update with accelerate, brake, reverse and turnLeft all set,
\* from forward speed 100, has left throttle 0 and brake 1.
C1_Witness ==
    /\ game.last = "update"
    /\ vehicle.input.accelerate /\ vehicle.input.brake
    /\ vehicle.input.reverse /\ vehicle.input.turnLeft
    /\ game.probe.prevSpeed = 100 * MILLI
    /\ vehicle.throttle = 0 /\ vehicle.brake = 1

\* C2: after every update, position.y is a number >= 0.5; and when the ground
\* check finds the height below 0.5 with a negative vertical velocity, the
\* integration step leaves the vertical velocity 0.
C2_GroundFloor ==
    game.last = "update" =>
        /\ ~Nan(vehicle, "positionY") /\ vehicle.position.y >= MILLI \div 2
        /\ (~game.probe.nanBeforeGround /\ game.probe.yBeforeGround < MILLI \div 2
            /\ game.probe.vyBeforeGround < 0)
               => game.probe.vyAfterIntegrate = 0

\* C3: in every state reached by update calls and collision responses, a
\* speed that is a number exceeds MAX_SPEED in magnitude by at most the
\* last update's |forward acceleration * dt|.
C3_SpeedBound ==
    ~Nan(vehicle, "speed")
        => Abs(vehicle.speed) <= MAX_SPEED * MILLI + game.probe.accelDt

\* C8: with the brake flag set, the accelerate flag is ignored: from the
\* current state, an update with accelerate set and one with it clear (all
\* else equal) leave the same speed, velocity and position.
C8_AccelerateIgnoredUnderBrake ==
    InRange(vehicle) =>
        \A input \in InputSet, deltaTime \in DtSet :
            input.brake =>
                LET w == getWorldState(world)
                    on == vehicleUpdate(vehicle, [input EXCEPT !.accelerate = TRUE],
                                        deltaTime, w)
                    off == vehicleUpdate(vehicle, [input EXCEPT !.accelerate = FALSE],
                                         deltaTime, w)
                IN /\ on.speed = off.speed
                   /\ on.velocity = off.velocity
                   /\ on.position = off.position
                   /\ on.nan = off.nan

\* C10: after an update on a grounded frame with the brake flag set, the
\* tractive force is the braking branch, -sign(speed) * 6 * DECELERATION for
\* the speed calculateForces read (NaN for a NaN speed).
C10_BrakingBranch ==
    game.last = "update" /\ vehicle.input.brake /\ vehicle.isGrounded =>
        IF game.probe.nanAtForces
        THEN Nan(vehicle, "tractiveForce")
        ELSE /\ ~Nan(vehicle, "tractiveForce")
             /\ vehicle.debug.tractiveForce =
                    -Sign(game.probe.speedAtForces) * 6 * DECELERATION * MILLI

\* C10 witness: an update at speed 100 with brake and accelerate both set, on
\* the ground, has produced the tractive force -6 * DECELERATION.
C10_Witness ==
    /\ game.last = "update"
    /\ vehicle.input.brake /\ vehicle.input.accelerate
    /\ vehicle.isGrounded
    /\ game.probe.speedAtForces = 100 * MILLI
    /\ vehicle.debug.tractiveForce = -(6 * DECELERATION * MILLI)

\* C11 as stated: from rest with only accelerate held at a fixed frame time,
\* every update leaves the speed strictly greater than before and below
\* MAX_SPEED (every reachable speed has speed / MAX_SPEED < 1).
C11_SpeedStrictlyIncreases ==
    game.last = "update" =>
        /\ ~Nan(vehicle, "speed")
        /\ vehicle.speed > game.probe.prevSpeed
        /\ vehicle.speed < MAX_SPEED * MILLI

\* C11 amended: at a fixed frame time of at least 1 ms, every update up to
\* the first one that ends off the road leaves the speed strictly greater
\* than before and below MAX_SPEED.
C11_SpeedIncreasesOnRoad ==
    game.last = "update" /\ game.held.deltaTime >= 1 /\ game.offRoadUpdates = 0 =>
        /\ ~Nan(vehicle, "speed")
        /\ vehicle.speed > game.probe.prevSpeed
        /\ vehicle.speed < MAX_SPEED * MILLI

\* C11 witness: the twentieth update of a launch at 60 Hz, still on the
\* road, has raised a speed above the initial 30.
C11_Witness ==
    /\ game.last = "update"
    /\ game.held.deltaTime = 16
    /\ game.updateCount = 20
    /\ game.offRoadUpdates = 0
    /\ game.probe.prevSpeed > 30 * MILLI
    /\ vehicle.speed > game.probe.prevSpeed

\* The recovery value of the steering suggestion for the last update:
\* roadForce = -sign(closestSegmentX) * 0.0005 * dt * min(5, speed), from
\* the position and the decayed speed checkSurfaceInteraction used.
recoveryValue ==
    -Sign(surfaceUnder(vehicle, getWorldState(world)).x)
        * MulDiv(game.probe.dt, Min(5 * MILLI, MulDiv(game.probe.speedAtSurface, 9998, UNIT)),
                 2 * MILLI)

\* C12: on an update that starts and ends off the road on its right side
\* with no turn key held and forward speed, the steering angle moves toward
\* the negative recovery value: it ends below the angle the update started
\* with and above the recovery value, and updateControls has not put it
\* back to zero in between.
C12_SteeringDriftsToRecovery ==
    (/\ game.last = "update"
     /\ game.probe.prevIsOffRoad /\ vehicle.isOffRoad
     /\ surfaceUnder(vehicle, getWorldState(world)).x > ROAD_HALF_WIDTH * CENTI
     /\ ~vehicle.input.turnLeft /\ ~vehicle.input.turnRight
     /\ ~game.probe.nanAtSurface /\ game.probe.speedAtSurface > 0
     /\ recoveryValue < game.probe.prevSteering
     /\ game.probe.prevSteering < 0)
        => /\ vehicle.steeringAngle < game.probe.prevSteering
           /\ vehicle.steeringAngle > recoveryValue
           /\ game.probe.steeringAtForces # 0

\* C13: whatever deltaTime an update is given, the time step its stages use
\* lies in [0, 0.1].
C13_TimeStepClamped ==
    game.last = "update" => game.probe.dt >= 0 /\ game.probe.dt <= 100

\* C14: no vehicle operation leaves a NaN: after updates at any reachable
\* speed (zero and negative included) and after collideWithObstacle, every
\* quantity of the vehicle is a number.
C14_NoNaN ==
    vehicle.nan = {}

\* The one-time off-road effects as the last update shows them: velocity.y
\* ends 0.3 above what integrate left, or the speed ends below the
\* off-road decay of the speed integrate left.
edgeEffectsOccurred ==
    /\ game.last = "update"
    /\ \/ ~Nan(vehicle, "velocityY")
          /\ vehicle.velocity.y = game.probe.vyAfterIntegrate + (3 * MILLI) \div 10
       \/ /\ vehicle.isOffRoad /\ ~Nan(vehicle, "speed")
          /\ Abs(vehicle.speed) < Abs(MulDiv(game.probe.speedAtSurface, 9998, UNIT))

\* C15: the one-time off-road effects occur only on an update that ends off
\* the road after the previous one ended on it, with |speed| > 20; so never
\* on a later frame of the same off-road episode.
C15_EdgeEffectsOncePerEpisode ==
    edgeEffectsOccurred =>
        /\ vehicle.isOffRoad
        /\ ~game.probe.prevIsOffRoad
        /\ Abs(game.probe.speedAtSurface) > 20 * MILLI

\* C15 witness: an update has ended off the road after more than one
\* off-road update without the effects, and an earlier state of the same
\* run had them (velocity.y still carries the 0.3).
C15_Witness ==
    /\ game.last = "update"
    /\ game.offRoadUpdates >= 3
    /\ game.probe.prevIsOffRoad /\ vehicle.isOffRoad
    /\ Abs(game.probe.speedAtSurface) > 20 * MILLI
    /\ ~edgeEffectsOccurred
    /\ vehicle.velocity.y = (3 * MILLI) \div 10

\* C16: after an update, wasOffRoad is the isOffRoad the previous update
\* left (the value the vehicle had when this update was called).
C16_WasOffRoadIsPrevious ==
    game.last = "update" => vehicle.wasOffRoad = game.probe.prevIsOffRoad

\* C17: on a world update that starts with less than 500 of road ahead of
\* the vehicle and with a segment more than 500 behind it, a segment is
\* moved ahead in that same update: roadZMax strictly increases.
C17_EmergencyRelocates ==
    [][(/\ game.pc = "world"
        /\ world.roadZMax * CENTI - vehicle.position.z < 500 * CENTI
        /\ \E k \in 1..Len(world.roadSegments) :
               vehicle.position.z - world.roadSegments[k].z * CENTI > 500 * CENTI)
           => world'.roadZMax > world.roadZMax]_vars

\* What a recycling path moved from the road before to the road after, with
\* the player at playerZ: every moved segment trailed the player by more than
\* safeDistance and went beyond the road's end as tracked before, and the
\* pool kept its size.
movedOnlyTrailing(before, after, playerZ, safeDistance) ==
    /\ Len(after.roadSegments) = Len(before.roadSegments)
    /\ \A k \in 1..Len(before.roadSegments) :
          after.roadSegments[k].z # before.roadSegments[k].z =>
              /\ playerZ - before.roadSegments[k].z * CENTI > safeDistance * CENTI
              /\ after.roadSegments[k].z > before.roadSegments[k].z
              /\ after.roadSegments[k].z > before.roadZMax

\* The emergency quick path alone, as recycleRoadSegments runs it.
emergencyPath(w, playerZ) ==
    LET r == emergencyLoop(w.roadSegments, 1, w.roadZMax, playerZ)
    IN [w EXCEPT !.roadSegments = r.segs, !.roadZMax = r.maxZ]

\* C18: from the road a world update starts with, the full pass moves only
\* segments more than 1000 behind the vehicle, the emergency path and the
\* whole update only segments more than 500 behind, each to a z beyond the
\* tracked road end; no segment at or ahead of the vehicle moves and the
\* pool keeps its size.
C18_OnlyTrailingSegmentsMove ==
    game.pc = "world" =>
        LET z == vehicle.position.z
        IN /\ movedOnlyTrailing(world, fullRecycle(world, z, TRUE), z, 1000)
           /\ movedOnlyTrailing(world, emergencyPath(world, z), z, 500)
           /\ movedOnlyTrailing(world,
                                worldUpdate(gameRoadCheck(world, game, z), vehicle.speed, z),
                                z, 500)

\* C18 witness: a world update is about to run from which the full pass
\* moves a segment and the emergency path moves another, while the segment
\* nearest ahead of the vehicle stays.
C18_Witness ==
    /\ game.pc = "world"
    /\ LET z == vehicle.position.z
           full == fullRecycle(world, z, TRUE)
           quick == emergencyPath(world, z)
       IN /\ \E k \in 1..Len(world.roadSegments) :
                 full.roadSegments[k].z # world.roadSegments[k].z
          /\ \E k \in 1..Len(world.roadSegments) :
                 quick.roadSegments[k].z # world.roadSegments[k].z
          /\ \E k \in 1..Len(world.roadSegments) :
                 /\ world.roadSegments[k].z * CENTI >= z
                 /\ full.roadSegments[k].z = world.roadSegments[k].z
                 /\ quick.roadSegments[k].z = world.roadSegments[k].z

\* C19: roadZMax never decreases from one state to the next, and it is
\* always at least the z of every road segment.
C19_RoadZMaxMonotone ==
    /\ [](\A k \in 1..Len(world.roadSegments) :
              world.roadSegments[k].z <= world.roadZMax)
    /\ [][world'.roadZMax >= world.roadZMax]_vars

\* C19 witness: frames have ended after the bounds were resampled and after
\* segments were moved: roadZMax is above the created road's end and equals
\* the greatest segment z.
C19_Witness ==
    /\ game.pc = "frame"
    /\ world.initialBoundsCalculated
    /\ world.roadZMax > createRoad.roadZMax
    /\ \E k \in 1..Len(world.roadSegments) : world.roadSegments[k].z = world.roadZMax

\* The reverse rule for the speed calculateForces read: -2.0 * DECELERATION
\* above 5, -2.5 * DECELERATION in (0, 5], -0.4 * ACCELERATION otherwise.
reverseRule ==
    IF ~game.probe.nanAtForces /\ game.probe.speedAtForces > 5 * MILLI
    THEN -(2 * DECELERATION * MILLI)
    ELSE IF ~game.probe.nanAtForces /\ game.probe.speedAtForces > 0
         THEN -((25 * DECELERATION * MILLI) \div 10)
         ELSE -((4 * ACCELERATION * MILLI) \div 10)

C21_NoForcesAirborne ==
    (game.last = "update" /\ ~vehicle.isGrounded)
        => /\ vehicle.debug.totalLongitudinalForce = 0
           /\ ~Nan(vehicle, "acceleration")
           /\ vehicle.acceleration.x = 0
           /\ vehicle.acceleration.z = 0
           /\ vehicle.angularAcceleration = 0

\* C21 amended: after an update that found no wheel on the ground, the
\* tractive force is zero, the angular acceleration is zero, and the
\* longitudinal force is the drag of the speed alone (no rolling resistance).
C21_OnlyDragAirborne ==
    (game.last = "update" /\ ~vehicle.isGrounded)
        => /\ vehicle.debug.tractiveForce = 0
           /\ ~Nan(vehicle, "tractiveForce")
           /\ vehicle.angularAcceleration = 0
           /\ ~Nan(vehicle, "angularAcceleration")
           /\ ~game.probe.nanAtForces
                 => vehicle.debug.totalLongitudinalForce
                        = dragForce(game.probe.speedAtForces)

\* An update of an airborne vehicle at speed 100 with the accelerate key
\* held: the drag is the only force.
C21_Witness ==
    /\ game.last = "update"
    /\ ~vehicle.isGrounded
    /\ vehicle.throttle = 1
    /\ game.probe.speedAtForces = 100 * MILLI
    /\ vehicle.debug.totalLongitudinalForce < 0

\* C22: with no turn key held, on an update with positive dt that ends on
\* the road the steering angle does not grow in magnitude and does not
\* change sign (so a zero angle stays zero), and a released steering angle
\* reaches exactly 0 while the vehicle stays on the road.
C22_SteeringReturnsToZero ==
    /\ [][(/\ game'.last = "update"
           /\ game'.updateCount = game.updateCount + 1
           /\ ~vehicle'.input.turnLeft /\ ~vehicle'.input.turnRight
           /\ game'.probe.dt > 0
           /\ ~vehicle'.isOffRoad)
          => /\ ~Nan(vehicle', "steeringAngle")
             /\ Abs(vehicle'.steeringAngle) <= Abs(vehicle.steeringAngle)
             /\ Sign(vehicle'.steeringAngle) \in {0, Sign(vehicle.steeringAngle)}]_vars
    /\ (game.held \in ReleaseSet /\ ~vehicle.isOffRoad)
           ~> (vehicle.steeringAngle = 0 \/ vehicle.isOffRoad)

\* The steering at its maximum after the turn phase, released at 60 Hz and
\* on its way back: still above zero after 5 release updates on the road.
C22_Witness ==
    /\ game.held = Held({}, 16)
    /\ game.updateCount = MaxTurnFrames + 5
    /\ game.offRoadUpdates = 0
    /\ game.probe.prevSteering > vehicle.steeringAngle
    /\ vehicle.steeringAngle > 0

\* C23: in every reachable state, whatever the turn keys, the surface and
\* the sign of the speed, |steeringAngle| <= MAX_STEERING_ANGLE.
C23_SteeringBounded ==
    Abs(vehicle.steeringAngle) <= MAX_STEERING_ANGLE

\* C24: after an update that had no road segment data (world or its segment
\* list missing, or the list empty), isOffRoad is true exactly when
\* |position.x| > 15.
C24_FixedBandFallback ==
    game.last = "update"
        => /\ ~Nan(vehicle, "position")
           /\ vehicle.isOffRoad <=> (Abs(vehicle.position.x) > ROAD_HALF_WIDTH * CENTI)

(***************************************************************************)
(* Obstacle, speed and recycling claims.                                   *)
(***************************************************************************)
\* C25: the number of live obstacles never exceeds maxObstacleCount, and a
\* frame whose spawn attempt met the cap leaves the obstacles that were
\* not removed as they were and adds none.
C25_ObstacleCap ==
    /\ [](Len(world.obstacles) <= maxObstacleCount)
    /\ [][(game.pc = "frame" /\ Len(updateObstacles(world, vehicle'.position.z).obstacles)
                                   = maxObstacleCount)
          => world'.obstacles = updateObstacles(world, vehicle'.position.z).obstacles]_vars

\* Six obstacles alive after the seventh frame, whose spawn attempt was made
\* (the cooldown timer was restarted) and added nothing: every obstacle is
\* nearer than a new one would be.
C25_Witness ==
    /\ game.updateCount = 7
    /\ game.pc = "collide"
    /\ Len(world.obstacles) = maxObstacleCount
    /\ world.lastObstacleTime = game.gameTime
    /\ \A k \in 1..Len(world.obstacles) :
           world.obstacles[k] < vehicle.position.z + 150 * CENTI

\* C26: after an update of a vehicle that has not steered (yaw 0, no turn
\* key), the speed it reports equals the forward component of velocity the
\* next update integrates from, so a reduction made by the surface
\* interaction step is kept.
C26_SpeedReductionPersists ==
    (/\ game.last = "update"
     /\ vehicle.nan = {}
     /\ vehicle.rotationY = 0
     /\ ~vehicle.input.turnLeft /\ ~vehicle.input.turnRight)
        => vehicle.speed = forwardSpeed(vehicle)

\* C27: within one update the speed changes only by the forward
\* acceleration times dt (before the off-road reductions): the forces read
\* the speed the update started with, and the integrated speed differs from
\* it by |forwardAccel * dt|; accelerate at a speed below 0.1 does not put a
\* fixed value in its place.
C27_NoSpeedJump ==
    (/\ game.last = "update"
     /\ game.collisions = 0
     /\ ~game.probe.prevIsOffRoad
     /\ vehicle.nan \subseteq {"effectiveSteeringAngle"})
        => /\ game.probe.speedAtForces = game.probe.prevSpeed
           /\ Abs(game.probe.speedAtSurface - game.probe.prevSpeed) = game.probe.accelDt

\* C28: with only the brake key held on a grounded vehicle, an update does
\* not increase |speed| and does not change the sign of the speed, and the
\* vehicle reaches speed 0 and stays there.
C28_BrakeStops ==
    /\ [][(game'.updateCount = game.updateCount + 1 /\ vehicle'.isGrounded)
          => /\ Abs(vehicle'.speed) <= Abs(vehicle.speed)
             /\ Sign(vehicle'.speed) \in {0, Sign(vehicle.speed)}]_vars
    /\ <>[](vehicle.speed = 0)

\* The z positions of the road segments.
segmentZs == {world.roadSegments[k].z : k \in 1..Len(world.roadSegments)}

\* C29: the road has no gaps and no doubled segments: no two segments share
\* a z, and every segment ahead of the vehicle has a segment exactly
\* SEGMENT_LENGTH beyond it unless it is the furthest one.
C29_NoGaps ==
    /\ Cardinality(segmentZs) = Len(world.roadSegments)
    /\ \A z \in segmentZs :
           (z * CENTI > vehicle.position.z /\ z + SEGMENT_LENGTH \notin segmentZs)
               => \A y \in segmentZs : y <= z

\* calculateForces line 366: the condition of the lateral traction-loss
\* branch, |steeringAngle| > 0.25 and |speed| > 0.6 * MAX_SPEED.
driftCondition(v) ==
    /\ ~Nan(v, "steeringAngle") /\ ~Nan(v, "speed")
    /\ Abs(v.steeringAngle) > (MILLI * MILLI) \div 4
    /\ Abs(v.speed) > (MAX_SPEED * MILLI * 6) \div 10

====
